---- MODULE Spec2Model ----
(***************************************************************************)
(* EGP-Dream realtime session client (frontend/src/App.tsx, the App        *)
(* component of lines 292-648): the WebSocket lifecycle and its message    *)
(* dispatcher, the live/history view cursor and its keyboard handler, the  *)
(* microphone capture pipeline and the settings/config synchronisation.    *)
(*                                                                         *)
(* Every React state cell and ref of the component is a variable; every    *)
(* event handler is one action.  A state update is taken to be rendered    *)
(* with the handler that made it; the passive effect that re-registers the *)
(* keydown listener (useEffect, deps [history.length]) runs later, as its  *)
(* own step, as React schedules it.                                        *)
(***************************************************************************)
EXTENDS Integers, Sequences, FiniteSets, TLC

(***************************************************************************)
(* Bounds of the model.                                                    *)
(***************************************************************************)
\* events handled in one behaviour of Spec
MaxEvents == 6
\* history_update messages received
MaxHist == 3
\* debug_text messages received
MaxDebugMsgs == 12
\* startRecording calls
MaxStarts == 2
\* messages on one connection, in the specification of the settings
MaxSent == 3

(***************************************************************************)
(* JavaScript values.                                                      *)
(***************************************************************************)
\* the value of a property the object does not have
UNDEFINED == "undefined"
NULL == "null"
\* data.item of a history_update that carries no item
UndefinedItem == [undefined |-> TRUE]

Max(a, b) == IF a >= b THEN a ELSE b

\* obj.f : the property, or undefined when the object has none of that name
Get(obj, f) == IF f \in DOMAIN obj THEN obj[f] ELSE UNDEFINED

\* x || d for a string-valued x : undefined and '' are falsy
OrElse(x, d) == IF x = UNDEFINED \/ x = "" THEN d ELSE x

\* Array.prototype.slice(-n)
SliceLast(s, n) == IF Len(s) <= n THEN s ELSE SubSeq(s, Len(s) - n + 1, Len(s))

(***************************************************************************)
(* Inbound frames.  event.data is text: either it parses to a JSON object  *)
(* or JSON.parse throws.                                                   *)
(***************************************************************************)
Item1 == [question |-> "q1", url |-> "u1", timestamp |-> "t1"]
Item2 == [question |-> "q2", url |-> "u2", timestamp |-> "t2"]
Items == {Item1, Item2}

Latency1 == {<<"Phase A:local_whisper", 2>>}
Latency2 == {<<"Phase B:gemini-2.5-flash", 1>>}
Cost1 == [total |-> 3, breakdown |-> {<<"gemini", 3>>}]
\* the literal of useState (line 320) and of the metrics branch (line 358)
DefaultCost == [total |-> 0, breakdown |-> {}]

ImageMsgs ==
    { [type |-> "image", url |-> "u1", prompt |-> "q1"],
      [type |-> "image", url |-> "u2", prompt |-> "q2"],
      [type |-> "image", prompt |-> "q1"],
      [type |-> "image", url |-> "u1"] }

HistoryMsgs ==
    { [type |-> "history_update", item |-> i] : i \in Items }
        \cup { [type |-> "history_update"] }

StatusMsgs ==
    { [type |-> "status", message |-> "Thinking"], [type |-> "status"] }

\* the n-th debug_text message carries the text "d<n>", or no text at all
DebugMsgs(n) ==
    { [type |-> "debug_text", text |-> "d" \o ToString(n)],
      [type |-> "debug_text"] }

MetricsMsgs ==
    { [type |-> "metrics", data |-> [latency |-> Latency1, cost |-> Cost1]],
      [type |-> "metrics", data |-> [latency |-> Latency2]],
      [type |-> "metrics", data |-> [cost |-> Cost1]],
      [type |-> "metrics"] }

UnknownMsgs == { [type |-> "pong"], [note |-> "no type"] }

\* the recognized messages that lack a required field
IncompleteMsgs ==
    { [type |-> "image", prompt |-> "q1"],
      [type |-> "image", url |-> "u1"],
      [type |-> "history_update"],
      [type |-> "status"],
      [type |-> "debug_text"],
      [type |-> "metrics", data |-> [latency |-> Latency2]],
      [type |-> "metrics", data |-> [cost |-> Cost1]],
      [type |-> "metrics"] }

JsonFrame(v) == [raw |-> "json", value |-> v]
MalformedFrame == [raw |-> "{not json"]

\* JSON.parse(event.data) returns, or throws a SyntaxError
ParseOk(ev) == ev.raw = "json"
JSONparse(ev) == ev.value

(***************************************************************************)
(* Config (lines 301-309) and the outbound messages.                       *)
(***************************************************************************)
Keys == {"", "k1"}
AudioModelIds == {"local_whisper", "gemini_flash_audio"}

\* localStorage.getItem(k) || ''
Stored(store, k) == IF store[k] = NULL THEN "" ELSE store[k]

InitialConfig(store) ==
    [ geminiKey      |-> Stored(store, "gemini_api_key"),
      openRouterKey  |-> Stored(store, "openrouter_api_key"),
      openaiKey      |-> Stored(store, "openai_api_key"),
      showDebug      |-> FALSE,
      audioModel     |-> "local_whisper",
      questionModel  |-> "gemini-2.5-flash",
      imageModel     |-> "google/gemini-2.5-flash-image",
      minDisplayTime |-> 6,
      sessionName    |-> "Session_today" ]

ConfigMsg(c) ==
    [ type |-> "config",
      geminiApiKey |-> c.geminiKey,
      openRouterApiKey |-> c.openRouterKey,
      openaiApiKey |-> c.openaiKey,
      debug |-> c.showDebug,
      audioModel |-> c.audioModel,
      questionModel |-> c.questionModel,
      imageModel |-> c.imageModel,
      minDisplayTime |-> c.minDisplayTime,
      sessionName |-> c.sessionName ]

GetMetricsMsg == [type |-> "get_metrics"]
AudioMsg == [type |-> "audio"]

EmptyStore ==
    [ gemini_api_key |-> NULL, openrouter_api_key |-> NULL,
      openai_api_key |-> NULL ]

VARIABLES
    \* the WebSocket object: ws.readyState, the messages given to ws.send,
    \* and whether onopen has set the get_metrics interval
    readyState, sent, pollTimer,
    \* React state of App (lines 293-321)
    wsStatus, status, imageStatus, liveImage, livePrompt,
    history, viewIndex, metrics, cost, debugText,
    isRecording, micStatus, showSettings, showQuestions, config,
    \* the history.length the registered keydown handler closed over
    keyLen,
    \* the Config values the mount-time closure of onopen closed over
    mountConfig,
    \* localStorage
    storage,
    \* refs (lines 324-326); 0 is null, n > 0 the object of the n-th start
    streamRef, audioContextRef, processorRef,
    \* the device: getUserMedia calls not yet settled, streams whose tracks
    \* run, audio contexts not closed, processors connected, the isRecording
    \* each processor's onaudioprocess closed over, callbacks queued
    pending, streams, contexts, connected, procRec, queued, starts,
    \* bookkeeping of the environment: the items of the history_update
    \* messages received, the number of debug_text messages received,
    \* whether an exception has escaped a handler, events handled, the
    \* handler that ran last, the cursor it found and, for a metrics message,
    \* the latency map it found
    arrived, nDebug, escaped, events, last, prevView, prevMetrics

vars ==
    << readyState, sent, pollTimer, wsStatus, status, imageStatus, liveImage,
       livePrompt, history, viewIndex, metrics, cost, debugText, isRecording,
       micStatus, showSettings, showQuestions, config, keyLen, mountConfig,
       storage, streamRef, audioContextRef, processorRef, pending, streams,
       contexts, connected, procRec, queued, starts, arrived, nDebug,
       escaped, events, last, prevView, prevMetrics >>

\* the WebSocket and what was sent on it
wsVars == << readyState, sent, pollTimer >>
\* what the dispatcher writes
sessionVars ==
    << imageStatus, liveImage, livePrompt, history, metrics, cost,
       debugText >>
viewVars == << viewIndex, keyLen, showQuestions >>
configVars == << config, mountConfig, storage, showSettings >>
captureVars ==
    << isRecording, micStatus, streamRef, audioContextRef, processorRef,
       pending, streams, contexts, connected, procRec, queued, starts >>
envVars == << arrived, nDebug >>

InitialStores ==
    { EmptyStore, [EmptyStore EXCEPT !["gemini_api_key"] = "k1"] }

Init ==
    /\ readyState = "CONNECTING"
    /\ sent = << >>
    /\ pollTimer = FALSE
    /\ wsStatus = "connecting"
    /\ status = ""
    /\ imageStatus = "idle"
    /\ liveImage = NULL
    /\ livePrompt = ""
    /\ history = << >>
    /\ viewIndex = -1
    /\ metrics = {}
    /\ cost = DefaultCost
    /\ debugText = << >>
    /\ isRecording = FALSE
    /\ micStatus = "unknown"
    /\ showSettings = FALSE
    /\ showQuestions = FALSE
    /\ storage \in InitialStores
    /\ config = InitialConfig(storage)
    /\ mountConfig = config
    /\ keyLen = 0
    /\ streamRef = 0
    /\ audioContextRef = 0
    /\ processorRef = 0
    /\ pending = {}
    /\ streams = {}
    /\ contexts = {}
    /\ connected = {}
    /\ procRec = << >>
    /\ queued = {}
    /\ starts = 0
    /\ arrived = << >>
    /\ nDebug = 0
    /\ escaped = FALSE
    /\ events = 0
    /\ last = "mount"
    /\ prevView = -1
    /\ prevMetrics = {}

(***************************************************************************)
(* TransportChannel: the WebSocket lifecycle (useEffect, lines 333-364).   *)
(***************************************************************************)
\* a sendConfig that tests the wsStatus of its closure, not ws.readyState
sendConfigByStatus(rs, c, out) ==
    IF wsStatus = "open" THEN Append(out, ConfigMsg(c)) ELSE out

\* sendConfig (lines 388-399) on a socket whose readyState is rs, with the
\* Config c of the render that made the closure: what has been sent after it
sendConfig(rs, c, out) ==
    IF rs = "OPEN" THEN Append(out, ConfigMsg(c)) ELSE out

\* ws.onopen (lines 335-340): the socket is OPEN when the event fires
onopen ==
    /\ readyState = "CONNECTING"
    /\ readyState' = "OPEN"
    /\ wsStatus' = "open"
    /\ status' = "Connected"
    /\ sent' = sendConfig(readyState', mountConfig, sent)
    /\ pollTimer' = TRUE
    /\ UNCHANGED << sessionVars, viewVars, configVars, captureVars, envVars,
                    escaped >>

\* an onclose that opens the connection again
oncloseReconnect ==
    /\ readyState \in {"CONNECTING", "OPEN"}
    /\ readyState' = "CONNECTING"
    /\ status' = "Disconnected"
    /\ wsStatus' = "connecting"
    /\ UNCHANGED << sent, pollTimer, sessionVars, viewVars, configVars,
                    captureVars, envVars, escaped >>

\* ws.onclose (line 361): the server or the network closes the socket
onclose ==
    /\ readyState \in {"CONNECTING", "OPEN"}
    /\ readyState' = "CLOSED"
    /\ status' = "Disconnected"
    /\ wsStatus' = "closed"
    /\ UNCHANGED << sent, pollTimer, sessionVars, viewVars, configVars,
                    captureVars, envVars, escaped >>

\* ws.onerror (line 341): the connection fails; the browser fires error
\* with the socket already CLOSED (its close event is onclose's, and
\* changes nothing more than the status line)
onerror ==
    /\ readyState \in {"CONNECTING", "OPEN"}
    /\ readyState' = "CLOSED"
    /\ wsStatus' = "closed"
    /\ status' = "Disconnected"
    /\ UNCHANGED << sent, pollTimer, sessionVars, viewVars, configVars,
                    captureVars, envVars, escaped >>

\* a poll that does not test readyState
pollTickUnguarded ==
    /\ pollTimer
    /\ sent' = Append(sent, GetMetricsMsg)
    /\ UNCHANGED << readyState, pollTimer, wsStatus, status, sessionVars,
                    viewVars, configVars, captureVars, envVars, escaped >>

\* the setInterval callback of line 339, every 5000 ms, never cleared
pollTick ==
    /\ pollTimer
    /\ sent' = IF readyState = "OPEN" THEN Append(sent, GetMetricsMsg)
               ELSE sent
    /\ UNCHANGED << readyState, pollTimer, wsStatus, status, sessionVars,
                    viewVars, configVars, captureVars, envVars, escaped >>

(***************************************************************************)
(* Dispatcher: ws.onmessage (lines 342-360).                               *)
(***************************************************************************)
\* a HistoryPush that keeps a window of the two newest entries
HistoryPushWindow(prev, item) == SliceLast(Append(prev, item), 2)

\* a HistoryPush that puts the newest entry first
HistoryPushFront(prev, item) == << item >> \o prev

\* setHistory(prev => [...prev, data.item])
HistoryPush(prev, item) == Append(prev, item)

\* the 10 of prev.slice(-10)
DebugKeep == 10

\* setDebugText(prev => [...prev.slice(-10), data.text || ''])
DebugPush(prev, text) == SliceLast(prev, DebugKeep) \o << OrElse(text, "") >>

ItemOf(data) == IF "item" \in DOMAIN data THEN data.item ELSE UndefinedItem

\* a LiveArtifact that takes the url for the caption and the caption for
\* the url
LiveArtifactSwapped(data) == << Get(data, "prompt"), Get(data, "url") >>

\* setLiveImage(data.url); setLivePrompt(data.prompt)
LiveArtifact(data) == << Get(data, "url"), Get(data, "prompt") >>

\* a flag that reads generating for an image message that has no url yet
ImageStatusOfPartial(data) ==
    IF "url" \in DOMAIN data THEN "idle" ELSE "generating"

\* setImageStatus('idle') (line 347)
ImageStatusOf(data) == "idle"

\* a setMetrics that merges the new map into the old one
NewMetricsMerged(prev, d) ==
    prev \cup (IF "latency" \in DOMAIN d THEN d.latency ELSE {})

\* setMetrics(data.data.latency || {})
NewMetrics(prev, d) == IF "latency" \in DOMAIN d THEN d.latency ELSE {}

\* setCost(data.data.cost || { total: 0, breakdown: {} })
NewCost(prev, d) == IF "cost" \in DOMAIN d THEN d.cost ELSE DefaultCost

\* a dispatcher that rejects a type it does not know
rejectMessage ==
    /\ escaped' = TRUE
    /\ UNCHANGED << sessionVars, status, envVars >>

\* no branch of the if-chain matches: the handler returns
ignoreMessage == UNCHANGED << sessionVars, status, envVars, escaped >>

onmessage(ev) ==
    /\ readyState = "OPEN"
    /\ IF ~ParseOk(ev)
       THEN \* JSON.parse throws; nothing catches it
            /\ escaped' = TRUE
            /\ UNCHANGED << sessionVars, status, envVars >>
       ELSE LET data == JSONparse(ev)
                type == Get(data, "type")
            IN  IF type = "image" THEN
                    /\ liveImage' = LiveArtifact(data)[1]
                    /\ livePrompt' = LiveArtifact(data)[2]
                    /\ imageStatus' = ImageStatusOf(data)
                    /\ UNCHANGED << history, metrics, cost, debugText,
                                    status, envVars, escaped >>
                ELSE IF type = "history_update" THEN
                    /\ Len(arrived) < MaxHist
                    /\ history' = HistoryPush(history, ItemOf(data))
                    /\ arrived' = Append(arrived, ItemOf(data))
                    /\ UNCHANGED << imageStatus, liveImage, livePrompt,
                                    metrics, cost, debugText, status, nDebug,
                                    escaped >>
                ELSE IF type = "status" THEN
                    /\ status' = Get(data, "message")
                    /\ UNCHANGED << sessionVars, envVars, escaped >>
                ELSE IF type = "debug_text" THEN
                    /\ nDebug < MaxDebugMsgs
                    /\ debugText' = DebugPush(debugText, Get(data, "text"))
                    /\ nDebug' = nDebug + 1
                    /\ UNCHANGED << imageStatus, liveImage, livePrompt,
                                    history, metrics, cost, status, arrived,
                                    escaped >>
                ELSE IF type = "metrics" THEN
                    IF "data" \notin DOMAIN data
                    THEN \* data.data.latency throws a TypeError
                         /\ escaped' = TRUE
                         /\ UNCHANGED << sessionVars, status, envVars >>
                    ELSE /\ metrics' = NewMetrics(metrics, data.data)
                         /\ cost' = NewCost(cost, data.data)
                         /\ UNCHANGED << imageStatus, liveImage, livePrompt,
                                         history, debugText, status, envVars,
                                         escaped >>
                ELSE ignoreMessage
    /\ UNCHANGED << wsVars, wsStatus, viewVars, configVars, captureVars >>

\* the frames the backend may send next
Frames ==
    {MalformedFrame} \cup
    { JsonFrame(m) : m \in ImageMsgs \cup HistoryMsgs \cup StatusMsgs
                            \cup DebugMsgs(nDebug + 1) \cup MetricsMsgs
                            \cup UnknownMsgs }

Receive == \E ev \in Frames : onmessage(ev)

(***************************************************************************)
(* ViewReconciler: the display logic (lines 328-331) and the keyboard      *)
(* navigation (lines 366-386).                                             *)
(***************************************************************************)
isLive == viewIndex = -1 \/ viewIndex >= Len(history)

\* a display that shows the newest entry whatever the index
displayImageNewest ==
    IF isLive THEN liveImage ELSE Get(history[Len(history)], "url")

\* a display that shows the live image whatever the cursor
displayImageLive == liveImage

\* history[viewIndex]?.url and ?.question
displayImage ==
    IF isLive THEN liveImage ELSE Get(history[viewIndex + 1], "url")
displayPrompt ==
    IF isLive THEN livePrompt ELSE Get(history[viewIndex + 1], "question")

\* the History Mode label (lines 494-498): {viewIndex + 1} / {history.length}
positionLabel == << viewIndex + 1, Len(history) >>

\* an ArrowLeft that does not clamp at 0
ArrowLeftUnclamped(prev, len) ==
    IF prev = -1 THEN len - 1 ELSE prev - 1

\* the updater of ArrowLeft (lines 372-375); len is the handler's
\* history.length
ArrowLeft(prev, len) ==
    IF prev = -1 THEN len - 1 ELSE Max(0, prev - 1)

\* an ArrowRight that does not return to Live after the last index
ArrowRightNoWrap(prev, len) ==
    IF prev = -1 THEN -1 ELSE prev + 1

\* the updater of ArrowRight (lines 377-381)
ArrowRight(prev, len) ==
    IF prev = -1 THEN -1
    ELSE IF prev >= len - 1 THEN -1
    ELSE prev + 1

\* a handleKeyDown with no test for an empty history, whose ArrowLeft clamps
\* the step from Live as well: Math.max(0, (prev === -1 ? len : prev) - 1)
handleKeyDownClamped(key) ==
    /\ viewIndex' = IF key = "ArrowLeft"
                    THEN Max(0, (IF viewIndex = -1 THEN keyLen
                                 ELSE viewIndex) - 1)
                    ELSE IF key = "ArrowRight"
                         THEN ArrowRight(viewIndex, keyLen)
                    ELSE viewIndex
    /\ UNCHANGED << wsVars, wsStatus, status, sessionVars, keyLen,
                    showQuestions, configVars, captureVars, envVars,
                    escaped >>

\* handleKeyDown as registered: it reads the history.length of the render
\* whose effect registered it
handleKeyDown(key) ==
    /\ viewIndex' = IF keyLen = 0 THEN viewIndex
                    ELSE IF key = "ArrowLeft" THEN ArrowLeft(viewIndex, keyLen)
                    ELSE IF key = "ArrowRight"
                         THEN ArrowRight(viewIndex, keyLen)
                    ELSE viewIndex
    /\ UNCHANGED << wsVars, wsStatus, status, sessionVars, keyLen,
                    showQuestions, configVars, captureVars, envVars,
                    escaped >>

\* Previous and Next: the arrow keys, or the chevrons of lines 508-513,
\* which dispatch the same keydown events
Previous == handleKeyDown("ArrowLeft")
GoNext == handleKeyDown("ArrowRight")

\* the effect of lines 367-386 runs again after a render in which
\* history.length has changed, and registers a handler of that render
keyEffect ==
    /\ keyLen # Len(history)
    /\ keyLen' = Len(history)
    /\ UNCHANGED << wsVars, wsStatus, status, sessionVars, viewIndex,
                    showQuestions, configVars, captureVars, envVars,
                    escaped >>

\* the list button (line 526)
toggleQuestions ==
    /\ showQuestions' = ~showQuestions
    /\ UNCHANGED << wsVars, wsStatus, status, sessionVars, viewIndex, keyLen,
                    configVars, captureVars, envVars, escaped >>

\* a click on entry i of the Question Log (lines 535-539)
clickQuestion ==
    /\ showQuestions
    /\ \E i \in 0 .. Len(history) - 1 : viewIndex' = i
    /\ UNCHANGED << wsVars, wsStatus, status, sessionVars, keyLen,
                    showQuestions, configVars, captureVars, envVars,
                    escaped >>

\* the sessions the session store holds: arrays of {question, url, timestamp}
StoredSessions == { << Item1, Item2 >>, << Item2 >> }

\* a persisted session is loaded (GET /api/session/{name}): its entries
\* replace the history and the cursor returns to Live.  The keydown handler
\* is registered again by the effect of lines 367-386, as after any change
\* of history.length.
loadSession(entries) ==
    /\ history' = entries
    /\ arrived' = entries
    /\ viewIndex' = -1
    /\ UNCHANGED << wsVars, wsStatus, status, imageStatus, liveImage,
                    livePrompt, metrics, cost, debugText, keyLen,
                    showQuestions, configVars, captureVars, nDebug, escaped >>

(***************************************************************************)
(* ConfigSynchronizer: the settings overlay (lines 557-645) and            *)
(* handleSaveSettings (lines 436-442).                                     *)
(***************************************************************************)
openSettings ==
    /\ ~showSettings
    /\ showSettings' = TRUE
    /\ UNCHANGED << wsVars, wsStatus, status, sessionVars, viewVars, config,
                    mountConfig, storage, captureVars, envVars, escaped >>

closeSettings ==
    /\ showSettings
    /\ showSettings' = FALSE
    /\ UNCHANGED << wsVars, wsStatus, status, sessionVars, viewVars, config,
                    mountConfig, storage, captureVars, envVars, escaped >>

\* an onChange setter that also dismisses the overlay
editSettingsCloses ==
    /\ showSettings
    /\ \E k \in Keys : config' = [config EXCEPT !.geminiKey = k]
    /\ config' # config
    /\ showSettings' = FALSE
    /\ UNCHANGED << wsVars, wsStatus, status, sessionVars, viewVars,
                    mountConfig, storage, captureVars, envVars, escaped >>

\* an onChange setter that also persists what was typed
editSettingsAutosave ==
    /\ showSettings
    /\ \E k \in Keys : config' = [config EXCEPT !.geminiKey = k]
    /\ config' # config
    /\ storage' = [storage EXCEPT !.gemini_api_key = config'.geminiKey]
    /\ UNCHANGED << wsVars, wsStatus, status, sessionVars, viewVars,
                    mountConfig, showSettings, captureVars, envVars,
                    escaped >>

\* the onChange setters of the overlay's inputs
editSettings ==
    /\ showSettings
    /\ \/ \E k \in Keys : config' = [config EXCEPT !.geminiKey = k]
       \/ \E m \in AudioModelIds : config' = [config EXCEPT !.audioModel = m]
       \/ config' = [config EXCEPT !.showDebug = ~config.showDebug]
    /\ config' # config
    /\ UNCHANGED << wsVars, wsStatus, status, sessionVars, viewVars,
                    mountConfig, storage, showSettings, captureVars, envVars,
                    escaped >>

handleSaveSettings ==
    /\ showSettings
    /\ storage' = [ gemini_api_key |-> config.geminiKey,
                    openrouter_api_key |-> config.openRouterKey,
                    openai_api_key |-> config.openaiKey ]
    /\ sent' = sendConfig(readyState, config, sent)
    /\ showSettings' = FALSE
    /\ UNCHANGED << readyState, pollTimer, wsStatus, status, sessionVars,
                    viewVars, config, mountConfig, captureVars, envVars,
                    escaped >>

\* the page is loaded again: every useState initialiser and the mount
\* effect run anew (lines 293-326, 333-364); localStorage is what survives
reload ==
    /\ storage' = storage
    /\ config' = InitialConfig(storage)
    /\ mountConfig' = InitialConfig(storage)
    /\ readyState' = "CONNECTING"
    /\ sent' = << >>
    /\ pollTimer' = FALSE
    /\ wsStatus' = "connecting"
    /\ status' = ""
    /\ imageStatus' = "idle"
    /\ liveImage' = NULL
    /\ livePrompt' = ""
    /\ history' = << >>
    /\ viewIndex' = -1
    /\ metrics' = {}
    /\ cost' = DefaultCost
    /\ debugText' = << >>
    /\ isRecording' = FALSE
    /\ micStatus' = "unknown"
    /\ showSettings' = FALSE
    /\ showQuestions' = FALSE
    /\ keyLen' = 0
    /\ streamRef' = 0
    /\ audioContextRef' = 0
    /\ processorRef' = 0
    /\ pending' = {}
    /\ streams' = {}
    /\ contexts' = {}
    /\ connected' = {}
    /\ procRec' = << >>
    /\ queued' = {}
    /\ starts' = 0
    /\ arrived' = << >>
    /\ nDebug' = 0
    /\ escaped' = FALSE

(***************************************************************************)
(* AudioCapturePipeline: startRecording (lines 446-470), stopRecording     *)
(* (lines 472-478), toggleRecording (line 480) and the device.             *)
(***************************************************************************)
\* startRecording up to its await: getUserMedia is asked for a stream.
\* The closure that will become onaudioprocess is the one of this render,
\* so the isRecording it reads is the one of the render that was clicked.
startRecording ==
    /\ starts < MaxStarts
    /\ starts' = starts + 1
    /\ pending' = pending \cup {starts + 1}
    /\ procRec' = procRec @@ ((starts + 1) :> isRecording)
    /\ UNCHANGED << isRecording, micStatus, streamRef, audioContextRef,
                    processorRef, streams, contexts, connected, queued,
                    status >>

\* a stopRecording that flips isRecording instead of clearing it
stopRecordingFlip ==
    /\ connected' = connected \ {processorRef}
    /\ processorRef' = 0
    /\ contexts' = contexts \ {audioContextRef}
    /\ audioContextRef' = 0
    /\ streams' = streams \ {streamRef}
    /\ streamRef' = 0
    /\ isRecording' = ~isRecording
    /\ status' = "Paused"
    /\ UNCHANGED << micStatus, pending, procRec, queued, starts >>

\* stopRecording (lines 472-478)
stopRecording ==
    /\ connected' = connected \ {processorRef}
    /\ processorRef' = 0
    /\ contexts' = contexts \ {audioContextRef}
    /\ audioContextRef' = 0
    /\ streams' = streams \ {streamRef}
    /\ streamRef' = 0
    /\ isRecording' = FALSE
    /\ status' = "Paused"
    /\ UNCHANGED << micStatus, pending, procRec, queued, starts >>

\* stopRecording called as a function, whatever isRecording is
stop ==
    /\ stopRecording
    /\ UNCHANGED << wsVars, wsStatus, sessionVars, viewVars, configVars,
                    envVars, escaped >>

\* the microphone button (line 520)
toggleRecording ==
    /\ IF isRecording THEN stopRecording ELSE startRecording
    /\ UNCHANGED << wsVars, wsStatus, sessionVars, viewVars, configVars,
                    envVars, escaped >>

\* getUserMedia resolves and startRecording runs to its end (lines 449-468)
getUserMediaResolves ==
    /\ \E n \in pending :
        /\ pending' = pending \ {n}
        /\ micStatus' = "granted"
        /\ streams' = streams \cup {n}
        /\ streamRef' = n
        /\ contexts' = contexts \cup {n}
        /\ audioContextRef' = n
        /\ connected' = connected \cup {n}
        /\ processorRef' = n
    /\ isRecording' = TRUE
    /\ status' = "Listening..."
    /\ UNCHANGED << wsVars, wsStatus, sessionVars, viewVars, configVars,
                    procRec, queued, starts, envVars, escaped >>

\* getUserMedia resolves but new AudioContext({sampleRate}) throws (the
\* device does not support the rate): the catch of line 469 runs with the
\* stream already held
audioContextThrows ==
    /\ \E n \in pending :
        /\ pending' = pending \ {n}
        /\ streams' = streams \cup {n}
        /\ streamRef' = n
    /\ micStatus' = "denied"
    /\ status' = "Mic Error"
    /\ UNCHANGED << wsVars, wsStatus, sessionVars, viewVars, configVars,
                    isRecording, audioContextRef, processorRef, contexts,
                    connected, procRec, queued, starts, envVars, escaped >>

\* a catch that logs the error and reports nothing
getUserMediaRejectsSilently ==
    /\ \E n \in pending : pending' = pending \ {n}
    /\ UNCHANGED << wsVars, wsStatus, status, sessionVars, viewVars,
                    configVars, isRecording, micStatus, streamRef,
                    audioContextRef, processorRef, streams, contexts,
                    connected, procRec, queued, starts, envVars, escaped >>

\* getUserMedia rejects (permission denied, no device): the catch of line 469
getUserMediaRejects ==
    /\ \E n \in pending : pending' = pending \ {n}
    /\ micStatus' = "denied"
    /\ status' = "Mic Error"
    /\ UNCHANGED << wsVars, wsStatus, sessionVars, viewVars, configVars,
                    isRecording, streamRef, audioContextRef, processorRef,
                    streams, contexts, connected, procRec, queued, starts,
                    envVars, escaped >>

\* the device fills a buffer of a connected processor of a running context
\* and queues its audioprocess event
audioFrame ==
    /\ \E n \in (connected \cap contexts) \ queued : queued' = queued \cup {n}
    /\ UNCHANGED << wsVars, wsStatus, status, sessionVars, viewVars,
                    configVars, isRecording, micStatus, streamRef,
                    audioContextRef, processorRef, pending, streams, contexts,
                    connected, procRec, starts, envVars, escaped >>

\* an onaudioprocess without the isRecording test of line 457
forwardFrameUnguarded(rec, rs, out) ==
    IF rs = "OPEN" THEN Append(out, AudioMsg) ELSE out

\* the body of processor.onaudioprocess (lines 456-464): rec is the
\* isRecording of its closure, rs is wsRef.current.readyState
forwardFrame(rec, rs, out) ==
    IF ~rec THEN out
    ELSE IF rs = "OPEN" THEN Append(out, AudioMsg)
    ELSE out

\* a queued audioprocess event of processor n is dispatched
onaudioprocess(n) ==
    /\ n \in queued
    /\ queued' = queued \ {n}
    /\ sent' = forwardFrame(procRec[n], readyState, sent)
    /\ UNCHANGED << readyState, pollTimer, wsStatus, status, sessionVars,
                    viewVars, configVars, isRecording, micStatus, streamRef,
                    audioContextRef, processorRef, pending, streams, contexts,
                    connected, procRec, starts, envVars, escaped >>

deviceCallback == \E n \in queued : onaudioprocess(n)

(***************************************************************************)
(* The client: any handler may run next.  The effect of lines 367-386 is   *)
(* no handler: React runs it between two of them.                          *)
(***************************************************************************)
Handle(name, A) ==
    /\ A
    /\ last' = name
    /\ prevView' = viewIndex
    /\ prevMetrics' = IF name = "onmessage:metrics" THEN metrics ELSE {}
Effect(A) == A /\ UNCHANGED << last, prevView, prevMetrics >>

\* a frame of F arrives; the component specifications name the handler with
\* the type it dispatched on
MsgLabel(ev) ==
    IF ParseOk(ev) THEN "onmessage:" \o Get(JSONparse(ev), "type")
    ELSE "onmessage"
ReceiveFrom(F) == \E ev \in F : Handle(MsgLabel(ev), onmessage(ev))

Step ==
    \/ Handle("onopen", onopen)
    \/ Handle("onclose", onclose)
    \/ Handle("onerror", onerror)
    \/ Handle("pollTick", pollTick)
    \/ Handle("onmessage", Receive)
    \/ Handle("ArrowLeft", Previous)
    \/ Handle("ArrowRight", GoNext)
    \/ Effect(keyEffect)
    \/ Handle("toggleQuestions", toggleQuestions)
    \/ Handle("clickQuestion", clickQuestion)
    \/ Handle("openSettings", openSettings)
    \/ Handle("closeSettings", closeSettings)
    \/ Handle("editSettings", editSettings)
    \/ Handle("handleSaveSettings", handleSaveSettings)
    \/ Handle("toggleRecording", toggleRecording)
    \/ Handle("getUserMedia", getUserMediaResolves)
    \/ Handle("getUserMedia", audioContextThrows)
    \/ Handle("getUserMedia", getUserMediaRejects)
    \/ Handle("audioFrame", audioFrame)
    \/ Handle("onaudioprocess", deviceCallback)

\* Spec: every handler, MaxEvents events in a behaviour
Next ==
    /\ events < MaxEvents
    /\ events' = events + 1
    /\ Step

Spec == Init /\ [][Next]_vars

\* SpecNav: the transport, the history and image messages and the
\* navigation, to any depth
\* (the complete image and history_update messages)
NavFrames ==
    { JsonFrame(m) : m \in ImageMsgs \cup HistoryMsgs }
        \ { JsonFrame(m) : m \in IncompleteMsgs }

NextNav ==
    /\ UNCHANGED events
    /\ \/ Handle("onopen", onopen)
       \/ Handle("onclose", onclose)
       \/ ReceiveFrom(NavFrames)
       \/ Handle("ArrowLeft", Previous)
       \/ Handle("ArrowRight", GoNext)
       \/ Effect(keyEffect)
       \/ Handle("toggleQuestions", toggleQuestions)
       \/ Handle("clickQuestion", clickQuestion)

SpecNav == Init /\ [][NextNav]_vars

\* SpecSession: SpecNav with the loading of persisted sessions
NextSession ==
    \/ NextNav
    \/ /\ UNCHANGED events
       /\ \E entries \in StoredSessions :
             Handle("loadSession", loadSession(entries))

SpecSession == Init /\ [][NextSession]_vars

\* SpecDebug: the transport and the debug_text messages, to any depth
DebugFrames ==
    {MalformedFrame} \cup { JsonFrame(m) : m \in DebugMsgs(nDebug + 1) }

NextDebug ==
    /\ UNCHANGED events
    /\ \/ Handle("onopen", onopen)
       \/ Handle("onclose", onclose)
       \/ Handle("onmessage", \E ev \in DebugFrames : onmessage(ev))

SpecDebug == Init /\ [][NextDebug]_vars

\* SpecDispatch: the transport and the messages that touch neither the
\* history nor the debug overlay, to any depth
DispatchFrames ==
    {MalformedFrame}
        \cup { JsonFrame(m) :
                 m \in ImageMsgs \cup StatusMsgs \cup MetricsMsgs \cup UnknownMsgs }

NextDispatch ==
    /\ UNCHANGED events
    /\ \/ Handle("onopen", onopen)
       \/ Handle("onclose", onclose)
       \/ ReceiveFrom(DispatchFrames)

SpecDispatch == Init /\ [][NextDispatch]_vars

\* SpecConfig: the transport, the settings overlay and page reloads, to any
\* depth; a connection carries at most MaxSent messages
NextConfig ==
    /\ UNCHANGED events
    /\ \/ Handle("onopen", onopen)
       \/ Handle("onclose", onclose)
       \/ Handle("openSettings", openSettings)
       \/ Handle("closeSettings", closeSettings)
       \/ Handle("editSettings", editSettings)
       \/ Len(sent) < MaxSent /\ Handle("handleSaveSettings", handleSaveSettings)
       \/ Handle("reload", reload)

SpecConfig == Init /\ [][NextConfig]_vars

\* SpecCapture: the transport and the capture pipeline, with stopRecording
\* also called directly, to any depth
NextCapture ==
    /\ UNCHANGED events
    /\ \/ Handle("onopen", onopen)
       \/ Handle("onclose", onclose)
       \/ Handle("toggleRecording", toggleRecording)
       \/ Handle("stop", stop)
       \/ Handle("getUserMedia", getUserMediaResolves)
       \/ Handle("getUserMedia", audioContextThrows)
       \/ Handle("getUserMedia", getUserMediaRejects)
       \/ Handle("audioFrame", audioFrame)
       \/ Handle("onaudioprocess", deviceCallback)

SpecCapture == Init /\ [][NextCapture]_vars

(***************************************************************************)
(* Properties.                                                             *)
(***************************************************************************)
Range(q) == { q[i] : i \in DOMAIN q }
IsAudio(m) == m.type = "audio"
AudioCount(out) == Len(SelectSeq(out, IsAudio))

\* C1: history is exactly the items of the history_update messages
\* received so far, in arrival order, whatever else has happened (other
\* messages, navigation, capture, settings).
C1_HistoryIsArrivals ==
    /\ history = arrived
    /\ Len(history) = Len(arrived)

C1_Witness ==
    /\ Len(history) >= 2
    /\ history[1] # history[2]
    /\ last = "ArrowLeft"
    /\ viewIndex >= 0

\* C2 (the claim as stated): a frame that is not valid JSON lets no
\* exception escape ws.onmessage, changes no SessionState field and leaves
\* the connection Open.
C2_MalformedIsSwallowed ==
    [][ onmessage(MalformedFrame) =>
            /\ escaped' = escaped
            /\ UNCHANGED << sessionVars, status, viewIndex, wsStatus >>
            /\ readyState' = "OPEN" ]_vars

\* C3 (the claim as stated): a recognized message that lacks a required
\* field is dropped: live artifact, history, status line, debug buffer and
\* metrics/cost stay as they were, and the connection continues.
C3_IncompleteIsDropped ==
    [][ (\E m \in IncompleteMsgs : onmessage(JsonFrame(m))) =>
            /\ UNCHANGED << liveImage, livePrompt, history, status,
                            debugText, metrics, cost >>
            /\ readyState' = "OPEN" ]_vars

\* C4 (the claim as stated): the debug buffer never holds more than 10
\* entries, and once 11 debug_text messages have arrived the first one is
\* gone.
C4_DebugAtMostTen ==
    /\ Len(debugText) <= 10
    /\ nDebug >= 11 => "d1" \notin Range(debugText)

\* C5: the first message sent on the connection is the config handshake:
\* no audio frame and no get_metrics poll precedes it.
C5_ConfigFirst ==
    sent # << >> => sent[1].type = "config"

C5_Witness ==
    /\ readyState = "OPEN"
    /\ last = "onaudioprocess"
    /\ Len(sent) >= 2
    /\ sent[2].type = "get_metrics"

\* C6 (the claim as stated): while capture is active and the transport is
\* Open, a frame delivered by the device callback goes out as exactly one
\* audio message.
C6_FrameIsForwarded ==
    [][ \A n \in queued :
            (onaudioprocess(n) /\ isRecording /\ n = processorRef
                /\ readyState = "OPEN")
            => sent' = Append(sent, AudioMsg) ]_vars

\* C7: while capture is stopped (stop() was called, or no start() has
\* succeeded since), no step sends an audio message; a callback that was
\* queued before stop() sends nothing when it runs.
C7_NoAudioAfterStop ==
    [][ ~isRecording => AudioCount(sent') = AudioCount(sent) ]_vars

C7_Witness ==
    /\ last = "onaudioprocess"
    /\ status = "Paused"
    /\ ~isRecording
    /\ readyState = "OPEN"

\* C8 (the claim as stated): with at least one history entry, Previous
\* pressed at Live and then Next leaves the cursor at Live.
C8_PreviousThenNext ==
    [][ (last = "ArrowLeft" /\ prevView = -1 /\ Len(history) >= 1 /\ GoNext)
            => viewIndex' = -1 ]_vars

\* C9: from an index cursor, Previous yields an index that is no larger
\* and never below 0; at index 0 it stays at 0.
C9_PreviousClamps ==
    [][ (Previous /\ viewIndex >= 0) =>
            /\ viewIndex' <= viewIndex
            /\ viewIndex' >= 0
            /\ viewIndex = 0 => viewIndex' = 0 ]_vars

C9_Witness ==
    /\ last = "ArrowLeft"
    /\ prevView = 0
    /\ viewIndex = 0
    /\ Len(history) >= 2
    /\ keyLen >= 2

\* C10 (the claim as stated): Previous pressed at Live moves the cursor to
\* history.length - 1 for the history as it is at the key press.
C10_PreviousFromLive ==
    [][ (Previous /\ viewIndex = -1 /\ Len(history) >= 1)
            => viewIndex' = Len(history) - 1 ]_vars

C12_DisplayedTuple ==
    IF viewIndex = -1 \/ viewIndex >= Len(history)
    THEN /\ isLive
         /\ displayImage = liveImage
         /\ displayPrompt = livePrompt
    ELSE /\ ~isLive
         /\ displayImage = arrived[viewIndex + 1].url
         /\ displayPrompt = arrived[viewIndex + 1].question
         /\ positionLabel = << viewIndex + 1, Len(arrived) >>

\* an older entry is on display while a different live image exists
C12_Witness ==
    /\ viewIndex = 0
    /\ Len(history) >= 2
    /\ history[1].url # history[2].url
    /\ liveImage \notin { NULL, history[1].url }
    /\ displayImage = history[1].url
    /\ positionLabel[1] = 1

\* C13: a history_update that arrives while the cursor is on an index
\* leaves the index as it was, and the entry at that index, hence the image
\* and the question on display, as they were.
C13_CursorStable ==
    [][ (viewIndex >= 0 /\ ReceiveFrom({ JsonFrame(m) : m \in HistoryMsgs }))
            => /\ viewIndex' = viewIndex
               /\ history'[viewIndex + 1] = history[viewIndex + 1]
               /\ displayImage' = displayImage
               /\ displayPrompt' = displayPrompt ]_vars

\* a third entry has just arrived while the first one was on display
C13_Witness ==
    /\ last = "onmessage:history_update"
    /\ prevView = 0
    /\ viewIndex = 0
    /\ Len(history) = 3
    /\ history[3] # history[1]

\* C14: the cursor is Live or an index below history.length, whichever of
\* Previous, Next and a click on the Question Log has set it.
C14_CursorInRange ==
    viewIndex = -1 \/ (0 <= viewIndex /\ viewIndex < Len(history))

\* Next has just moved the cursor up to the last index
C14_Witness ==
    /\ last = "ArrowRight"
    /\ Len(history) >= 2
    /\ viewIndex = Len(history) - 1
    /\ prevView = viewIndex - 1

C16_ImageSetsLive ==
    [][ \A m \in ImageMsgs :
          ( /\ "url" \in DOMAIN m
            /\ "prompt" \in DOMAIN m
            /\ ReceiveFrom({ JsonFrame(m) }) )
            => /\ liveImage' = m.url
               /\ livePrompt' = m.prompt
               /\ imageStatus' = "idle"
               /\ UNCHANGED << history, viewIndex >> ]_vars

\* a second image has just arrived while an entry of the history was on
\* display
C16_Witness ==
    /\ last = "onmessage:image"
    /\ liveImage = "u2"
    /\ livePrompt = "q2"
    /\ Len(history) >= 1
    /\ viewIndex >= 0
    /\ prevView = viewIndex

\* C17: a JSON object whose type is none of the recognized ones, or that
\* has no type, changes no field of the session state and lets no exception
\* escape the handler.
C17_UnknownIgnored ==
    [][ \A m \in UnknownMsgs :
          ReceiveFrom({ JsonFrame(m) })
            => /\ UNCHANGED << sessionVars, status, wsStatus, viewVars,
                               isRecording, micStatus >>
               /\ escaped' = escaped ]_vars

\* an unknown message has just arrived in a session that holds a live image
\* and metrics, and no exception has escaped
C17_Witness ==
    /\ last = "onmessage:pong"
    /\ ~escaped
    /\ liveImage = "u1"
    /\ metrics = Latency1
    /\ readyState = "OPEN"

\* C18: the reported connection state starts at connecting and changes
\* only from connecting to open, from open to closed and from connecting to
\* closed; the one socket made at mount goes the same way, so nothing is
\* open or connecting again after a close.
C18_ConnectionStates ==
    /\ wsStatus = "connecting"
    /\ readyState = "CONNECTING"
    /\ [][ /\ wsStatus' # wsStatus =>
                << wsStatus, wsStatus' >> \in
                    { << "connecting", "open" >>, << "open", "closed" >>,
                      << "connecting", "closed" >> }
           /\ readyState' # readyState =>
                << readyState, readyState' >> \in
                    { << "CONNECTING", "OPEN" >>, << "OPEN", "CLOSED" >>,
                      << "CONNECTING", "CLOSED" >> }
           /\ wsStatus = "closed" => wsStatus' = "closed" ]_vars

\* a connection that had opened and sent its handshake has been closed
C18_Witness ==
    /\ last = "onclose"
    /\ wsStatus = "closed"
    /\ readyState = "CLOSED"
    /\ sent # << >>

\* C19 (the claim as stated): every save sends one config message that
\* carries the whole current Config.
C19_EverySaveSendsConfig ==
    [][ handleSaveSettings => sent' = Append(sent, ConfigMsg(config)) ]_vars

\* C20: durable storage is written by handleSaveSettings only.  An edit in
\* the overlay changes the in-memory Config and nothing else: it writes no
\* storage and sends no message; messages, navigation and capture leave the
\* storage alone.
C20_StorageOnlyByApply ==
    [][ /\ storage' # storage => handleSaveSettings
        /\ editSettings =>
              /\ config' # config
              /\ storage' = storage
              /\ sent' = sent ]_vars

\* a key has been typed into the overlay and is not in the storage
C20_Witness ==
    /\ last = "editSettings"
    /\ config.geminiKey = "k1"
    /\ storage.gemini_api_key = NULL
    /\ readyState = "OPEN"

\* C21 (the claim as stated): each of the eight persisted values (three
\* credentials, three model selections, the display time, the session
\* label) is seeded at start with the value the last save wrote.
PersistedFields ==
    { "geminiKey", "openRouterKey", "openaiKey", "audioModel",
      "questionModel", "imageModel", "minDisplayTime", "sessionName" }

C21_ConfigSurvivesRestart ==
    [][ (last = "handleSaveSettings" /\ reload)
            => \A f \in PersistedFields : config'[f] = config[f] ]_vars

\* C22: stopRecording may be called at any time.  It lets no exception
\* escape and leaves capture off with no processor, context or stream in
\* the refs; called before any start it releases nothing, and called again
\* right after itself it changes nothing.
C22_StopIdempotent ==
    [][ stop =>
          /\ ~isRecording'
          /\ processorRef' = 0 /\ audioContextRef' = 0 /\ streamRef' = 0
          /\ status' = "Paused"
          /\ escaped' = escaped
          /\ starts = 0 =>
                UNCHANGED << streams, contexts, connected, pending, sent >>
          /\ last = "stop" =>
                UNCHANGED << captureVars, status, wsVars, wsStatus,
                             sessionVars >> ]_vars

\* stopRecording has run though no start was ever made
C22_Witness ==
    /\ last = "stop"
    /\ starts = 0
    /\ status = "Paused"
    /\ ~isRecording
    /\ ~escaped

\* C23: when startRecording fails (getUserMedia rejects, or the graph cannot
\* be built) the status line reads Mic Error, the failure turns capture on
\* nowhere and sends nothing; the microphone button then starts a new
\* attempt, and an attempt whose stream arrives ends with capture on.
C23_StartFailureRecoverable ==
    [][ /\ (getUserMediaRejects \/ audioContextThrows) =>
              /\ status' = "Mic Error"
              /\ micStatus' = "denied"
              /\ isRecording' = isRecording
              /\ sent' = sent
        /\ (status = "Mic Error" /\ ~isRecording /\ toggleRecording) =>
              /\ starts' = starts + 1
              /\ starts' \in pending'
        /\ getUserMediaResolves =>
              /\ isRecording'
              /\ status' = "Listening..."
              /\ micStatus' = "granted" ]_vars

\* the first attempt was rejected and the button has started a second one
C23_Witness ==
    /\ last = "toggleRecording"
    /\ status = "Mic Error"
    /\ micStatus = "denied"
    /\ ~isRecording
    /\ starts = 2
    /\ pending = {2}
    /\ streams = {}
    /\ sent # << >>
    /\ AudioCount(sent) = 0

\* C24 (the claim as stated): loading a session replaces the history with
\* the fetched entries and puts the cursor at Live whatever it was; after a
\* session of two entries is loaded, Previous lands on index 1.
C24_LoadThenPrevious ==
    [][ /\ \A entries \in StoredSessions :
              loadSession(entries) =>
                  history' = entries /\ viewIndex' = -1
        /\ (last = "loadSession" /\ Len(history) = 2 /\ Previous) =>
              viewIndex' = 1 ]_vars

\* C25: while the history is empty Previous and Next change nothing: the
\* cursor is and stays Live and the live image and prompt stay on display.
C25_EmptyHistoryNoOp ==
    [][ (Len(history) = 0 /\ (Previous \/ GoNext)) =>
          /\ viewIndex = -1
          /\ viewIndex' = -1
          /\ isLive'
          /\ displayImage' = liveImage
          /\ displayPrompt' = livePrompt ]_vars

\* Previous has been pressed with a live image and no history
C25_Witness ==
    /\ last = "ArrowLeft"
    /\ Len(history) = 0
    /\ viewIndex = -1
    /\ liveImage = "u1"
    /\ displayImage = "u1"

\* C30: an image message that arrives while the cursor is on an index
\* replaces the live image and prompt and leaves the display alone: it
\* still shows the url and the question of the entry under the cursor, and
\* isLive stays false.  Whenever the cursor is at Live the display is the
\* live image and prompt.
C30_ImageBehindHistory ==
    [][ /\ \A m \in ImageMsgs :
              ( /\ viewIndex >= 0
                /\ JsonFrame(m) \in NavFrames
                /\ ReceiveFrom({ JsonFrame(m) }) )
                => /\ liveImage' = m.url
                   /\ livePrompt' = m.prompt
                   /\ ~isLive'
                   /\ displayImage' = history[viewIndex + 1].url
                   /\ displayPrompt' = history[viewIndex + 1].question
                   /\ displayImage' = displayImage
                   /\ displayPrompt' = displayPrompt
        /\ viewIndex' = -1 =>
              /\ displayImage' = liveImage'
              /\ displayPrompt' = livePrompt' ]_vars

\* entry 0 was on display when a second image arrived, and it still is
C30_Witness ==
    /\ last = "onmessage:image"
    /\ prevView = 0
    /\ viewIndex = 0
    /\ liveImage = "u2"
    /\ displayImage = "u1"
    /\ displayPrompt = "q1"

\* C26: the settings overlay is hidden at mount and shown once the settings
\* button is clicked; only the button shows it and only its close button
\* and APPLY hide it: no message, key press or other handler does either.
C26_OverlayVisibility ==
    /\ ~showSettings
    /\ [][ /\ openSettings => showSettings'
           /\ (~showSettings /\ showSettings') => openSettings
           /\ (showSettings /\ ~showSettings') =>
                 (closeSettings \/ handleSaveSettings) ]_vars

\* the overlay is still shown after a message has arrived and an arrow key
\* has been pressed behind it
C26_Witness ==
    /\ showSettings
    /\ last = "ArrowLeft"
    /\ liveImage # NULL
    /\ config # mountConfig

\* C27 (the claim as stated): the config message sent when the connection
\* opens carries the Config as it is at that moment, edits made while
\* connecting included.
C27_HandshakeIsCurrent ==
    [][ onopen => sent' = Append(sent, ConfigMsg(config)) ]_vars

\* C28 (the claim as stated): once stopRecording has run, no stream, audio
\* context or connected processor of any earlier startRecording is held.
C28_StopReleasesAll ==
    [][ (isRecording /\ toggleRecording) =>
          /\ streams' = {}
          /\ contexts' = {}
          /\ connected' = {} ]_vars

\* C29: nothing is sent unless the socket is OPEN: a step that sends
\* anything finds or leaves it OPEN, nothing has been sent while it is still
\* CONNECTING, the handshake is the one message of onopen, and after the
\* close the sent messages stay what they were.
C29_NothingSentUnlessOpen ==
    /\ [](readyState = "CONNECTING" => sent = << >>)
    /\ [][ /\ sent' # sent => readyState' = "OPEN"
           /\ onopen => sent' = << sent'[1] >>
           /\ readyState = "CLOSED" => sent' = sent ]_vars

\* the poll timer has fired after the close, and a save was made before
\* the connection opened: only the handshake went out
C29_Witness ==
    /\ last = "pollTick"
    /\ readyState = "CLOSED"
    /\ Len(sent) = 1
    /\ storage.openai_api_key = ""

C32_ImageStatusIdle == imageStatus = "idle"

\* an image has arrived while capture was on
C32_Witness ==
    /\ last = "onmessage"
    /\ isRecording
    /\ liveImage = "u1"
    /\ status = "Listening..."

====
